---- MODULE Spec2Model ----
(***************************************************************************)
(* Model of the identity-backed wallet adapter (IIWalletAdapter) and of    *)
(* the signing methods it adds to Transaction and VersionedTransaction.    *)
(*                                                                         *)
(* JavaScript runs each synchronous stretch of code to completion, so one  *)
(* action is one such stretch: the part of a call up to its first await,   *)
(* or the continuation that runs when an awaited promise has settled.      *)
(* The moment an identity's sign() promise settles is chosen freely.       *)
(***************************************************************************)
EXTENDS Integers, Sequences, FiniteSets, Bags, TLC

\* ---------------------------------------------------------------- bounds
MaxAccounts == 2   \* account keys of a compiled message
MaxSlots == 2      \* signature slots a legacy transaction starts with
MaxIds == 2        \* identities passed to one signing call
MaxEvents == 3     \* connect() and disconnect() calls in one run
MaxOpen == 3       \* sign() requests in flight, counting the identities of a new call

\* ------------------------------------------------------ program constants
SignatureLength == 64
\* a length an identity that breaks the 64-byte contract returns
BadSignatureLength == 32

\* ------------------------------------------------------------ value sets
Keys == {"A", "B", "C"}

\* An Ed25519KeyIdentity: getPublicKey() gives key, sign() gives a
\* signature of sigLen bytes. Key C has no identity: it is an account of
\* other parties only.
Identities ==
    [key : {"A", "B"}, sigLen : {SignatureLength}]
        \cup {[key |-> "B", sigLen |-> BadSignatureLength]}

NoIdentity == [key |-> "none", sigLen |-> 0]

NoData == [numRequiredSignatures |-> 0, keys |-> << >>]
NoSignature == [signer |-> "none", data |-> NoData, len |-> 0]

\* ------------------------------------------------------------- sequences
RECURSIVE SeqsUpTo(_, _)
SeqsUpTo(S, n) ==
    IF n = 0 THEN {<< >>}
    ELSE LET shorter == SeqsUpTo(S, n - 1)
         IN  shorter \cup {Append(s, x) : s \in {t \in shorter : Len(t) = n - 1}, x \in S}

Range(s) == {s[i] : i \in DOMAIN s}

DistinctKeySeqs(n) ==
    {s \in SeqsUpTo(Keys, n) : \A i, j \in DOMAIN s : s[i] = s[j] => i = j}

\* findIndex with pubkey.equals: the first position of the key, 0 for "not found"
\* (JavaScript's -1).
FindIndex(pubkeys, pubkey) ==
    IF \E i \in DOMAIN pubkeys : pubkeys[i] = pubkey
    THEN CHOOSE i \in DOMAIN pubkeys :
            pubkeys[i] = pubkey /\ \A j \in 1..(i - 1) : pubkeys[j] # pubkey
    ELSE 0

\* The public keys of a slot list, slot by slot.
SlotKeys(signatures) == [i \in DOMAIN signatures |-> signatures[i].publicKey]

\* Array.prototype.slice(0, n)
Slice(s, n) == SubSeq(s, 1, IF n < Len(s) THEN n ELSE Len(s))

\* ------------------------------------------------------------ identities
\* new PublicKey((identity.getPublicKey() as Ed25519PublicKey).toRaw())
DeriveSignerKey(identity) == identity.key

\* PublicKey.toString(): the base58 text of the key
KeyToString(pubkey) == <<"base58", pubkey>>

\* message.serialize(): the bytes an identity signs
Serialize(message) ==
    [numRequiredSignatures |-> message.numRequiredSignatures,
     keys |-> message.accountKeys]

\* identity.sign(data)
Sign(identity, data) ==
    [signer |-> identity.key, data |-> data, len |-> identity.sigLen]

\* A compiled message: account keys, the first numRequiredSignatures of
\* them being the required signers.
Messages ==
    {m \in [accountKeys : DistinctKeySeqs(MaxAccounts),
            numRequiredSignatures : 1..MaxAccounts] :
        m.numRequiredSignatures <= Len(m.accountKeys)}

\* The signature slot lists a legacy transaction can hold when it is handed
\* to a signing call: any list of slots with distinct keys, each slot empty
\* or holding the 64-byte signature of its key.
SlotLists(message) ==
    {[i \in DOMAIN ks |->
        [publicKey |-> ks[i],
         signature |-> IF i \in filled
                       THEN Sign([key |-> ks[i], sigLen |-> SignatureLength],
                                 Serialize(message))
                       ELSE NoSignature]] :
        ks \in DistinctKeySeqs(MaxSlots), filled \in SUBSET (1..MaxSlots)}

\* new VersionedTransaction(message): one zeroed 64-byte signature per
\* required signer
ZeroSignature == [signer |-> "zero", data |-> NoData, len |-> SignatureLength]
DefaultSignatures(message) ==
    [i \in 1..message.numRequiredSignatures |-> ZeroSignature]

\* ----------------------------------------------------------------- state
VARIABLES
    identity,        \* IIWalletAdapter.#identity
    constructedWith, \* the identity the constructor was given
    emitted,         \* events emitted by the adapter, oldest first
    returned,        \* how each connect() and disconnect() call settled, oldest first
    txMessage,       \* what compileMessage() returns for the legacy transaction
    txSignatures,    \* the legacy transaction's signatures (its slots)
    vtxMessage,      \* the versioned transaction's message
    vtxSignatures,   \* the versioned transaction's signatures
    signing,         \* the signing call started last
    detached         \* the open sign() requests of the calls started before
                     \* the one in signing, as a bag: two calls can each
                     \* have a request open with the same identity

vars == <<identity, constructedWith, emitted, returned, txMessage, txSignatures,
          vtxMessage, vtxSignatures, signing, detached>>

\* No signing call has been started.
IdleCall ==
    [op |-> "idle",        \* the method the caller invoked
     tx |-> "none",        \* "legacy" or "versioned"
     ids |-> << >>,        \* the identities passed to the transaction's method
     asked |-> << >>,      \* identities whose sign() has been invoked, in order
     pending |-> {},       \* identities whose sign() has not settled yet
     written |-> << >>,    \* identities whose signature the call has stored, in order
     pos |-> 0,            \* versioned loop: position in ids of the awaited identity
     index |-> 0,          \* versioned loop: signerIndex of the awaited identity
     compiled |-> FALSE,   \* _compile() has run
     dropped |-> {},       \* keys whose signatures _compile() discarded
     inner |-> "none",     \* promise of the transaction's method:
                           \*   "pending", "resolved" or "rejected"
     outcome |-> "none",   \* promise returned to the caller, likewise
     error |-> "none",     \* what a rejected promise carries
     unhandled |-> {}]     \* errors thrown in callbacks nobody awaits

\* The sign() request of a callback of _partialSignWithIdentity.
LegacyRequest(id) == [tx |-> "legacy", id |-> id, index |-> 0, rest |-> << >>]

\* The sign() request a sign_with_identity loop awaits: the signerIndex it
\* located and the identities the loop has still to go through.
VersionedRequest(id, index, rest) ==
    [tx |-> "versioned", id |-> id, index |-> index, rest |-> rest]

\* The open sign() requests of a call.
OpenRequests(call) ==
    IF call.tx = "legacy"
    THEN SetToBag({LegacyRequest(id) : id \in call.pending})
    ELSE IF call.pending # {}
    THEN SetToBag({VersionedRequest(call.ids[call.pos], call.index,
                        SubSeq(call.ids, call.pos + 1, Len(call.ids)))})
    ELSE EmptyBag

\* The number of sign() requests in a bag, counting with each the requests
\* its loop has still to make.
RequestsAhead(requests) ==
    BagCardinality(requests)
        + Cardinality(UNION {{<<r, k, c>> : k \in 1..Len(r.rest),
                                           c \in 1..CopiesIn(r, requests)} :
                             r \in BagToSet(requests)})

\* The sign() requests the calls in flight have open or have still to make.
OpenCount == RequestsAhead(OpenRequests(signing) (+) detached)

\* The record of a new call of op on transaction tx.
NewCall(op, tx, identities) ==
    [IdleCall EXCEPT !.op = op, !.tx = tx, !.ids = identities]

\* ------------------------------------------------------- legacy signing
\* partial_sign_with_identity, "Dedupe signers": keep the first identity of
\* each public-key string.
RECURSIVE DedupeFrom(_, _, _, _)
DedupeFrom(identities, i, seen, uniqueSigners) ==
    IF i > Len(identities) THEN uniqueSigners
    ELSE LET key == KeyToString(DeriveSignerKey(identities[i]))
         IN  IF key \in seen
             THEN DedupeFrom(identities, i + 1, seen, uniqueSigners)
             ELSE DedupeFrom(identities, i + 1, seen \cup {key},
                             Append(uniqueSigners, identities[i]))

\* Variant: the identity list is used as given.
DedupeNone(identities) == identities

Dedupe(identities) == DedupeFrom(identities, 1, {}, << >>)

\* Variant: a slot list of the right length is reused without comparing
\* its keys.
CompileLengthOnly(message, signatures) ==
    LET signedKeys == Slice(message.accountKeys, message.numRequiredSignatures)
    IN  IF Len(signatures) = Len(signedKeys)
        THEN signatures
        ELSE [index \in DOMAIN signedKeys |->
                [publicKey |-> signedKeys[index], signature |-> NoSignature]]

\* Variant: the slot list is rebuilt whether or not it already matches.
CompileAlwaysReset(message, signatures) ==
    LET signedKeys == Slice(message.accountKeys, message.numRequiredSignatures)
    IN  [index \in DOMAIN signedKeys |->
            [publicKey |-> signedKeys[index], signature |-> NoSignature]]

\* Transaction.prototype._compile: the slot list it leaves in
\* this.signatures.
Compile(message, signatures) ==
    LET signedKeys == Slice(message.accountKeys, message.numRequiredSignatures)
        valid == \A index \in DOMAIN signatures :
                    signedKeys[index] = signatures[index].publicKey
    IN  IF Len(signatures) = Len(signedKeys) /\ valid
        THEN signatures
        ELSE [index \in DOMAIN signedKeys |->
                [publicKey |-> signedKeys[index], signature |-> NoSignature]]

\* The keys whose signatures are lost when _compile replaces this.signatures.
Discarded(message, signatures) ==
    IF Compile(message, signatures) = signatures THEN {}
    ELSE {signatures[i].publicKey :
            i \in {j \in DOMAIN signatures : signatures[j].signature # NoSignature}}

\* Variant: a signature of a key without a slot gets a new slot at the end.
AddSignatureAppendUnknown(signatures, pubkey, signature) ==
    LET index == FindIndex(SlotKeys(signatures), pubkey)
    IN  IF signature.len # SignatureLength
        THEN [error |-> "InvalidSignatureLength", signatures |-> signatures]
        ELSE IF index = 0
        THEN [error |-> "none",
              signatures |-> Append(signatures,
                                [publicKey |-> pubkey, signature |-> signature])]
        ELSE [error |-> "none",
              signatures |-> [signatures EXCEPT ![index].signature = signature]]

\* Variant: an unknown signer undoes the signatures stored so far.
AddSignatureRollback(signatures, pubkey, signature) ==
    LET index == FindIndex(SlotKeys(signatures), pubkey)
    IN  IF signature.len # SignatureLength
        THEN [error |-> "InvalidSignatureLength", signatures |-> signatures]
        ELSE IF index = 0
        THEN [error |-> "UnknownSigner",
              signatures |-> [i \in DOMAIN signatures |->
                                [signatures[i] EXCEPT !.signature = NoSignature]]]
        ELSE [error |-> "none",
              signatures |-> [signatures EXCEPT ![index].signature = signature]]

\* Variant: no length assertion.
AddSignatureUnchecked(signatures, pubkey, signature) ==
    LET index == FindIndex(SlotKeys(signatures), pubkey)
    IN  IF index = 0
        THEN [error |-> "UnknownSigner", signatures |-> signatures]
        ELSE [error |-> "none",
              signatures |-> [signatures EXCEPT ![index].signature = signature]]

\* Variant: the length assertion runs after the slot assignment.
AddSignatureAssignFirst(signatures, pubkey, signature) ==
    LET index == FindIndex(SlotKeys(signatures), pubkey)
        assigned == [signatures EXCEPT ![index].signature = signature]
    IN  IF index = 0
        THEN [error |-> "UnknownSigner", signatures |-> signatures]
        ELSE IF signature.len # SignatureLength
        THEN [error |-> "InvalidSignatureLength", signatures |-> assigned]
        ELSE [error |-> "none", signatures |-> assigned]

\* Transaction.prototype._addSignature: the error it throws, or "none" and
\* the slot list after the assignment.
AddSignature(signatures, pubkey, signature) ==
    LET index == FindIndex(SlotKeys(signatures), pubkey)
    IN  IF signature.len # SignatureLength
        THEN [error |-> "InvalidSignatureLength", signatures |-> signatures]
        ELSE IF index = 0
        THEN [error |-> "UnknownSigner", signatures |-> signatures]
        ELSE [error |-> "none",
              signatures |-> [signatures EXCEPT ![index].signature = signature]]

\* Transaction.prototype._partialSignWithIdentity up to the awaits: forEach
\* starts the callback of every identity, and each callback invokes sign()
\* on the serialized message and suspends. Nothing awaits the callbacks.
PartialSignWithIdentity(call, message, identities) ==
    [call EXCEPT !.asked = identities, !.pending = Range(identities)]

\* Variant: the empty-list check comes after _compile().
partial_sign_with_identity_CompileFirst(identities, op) ==
    LET call == NewCall(op, "legacy", identities)
        direct == op = "partial_sign_with_identity"
    IN  /\ txSignatures' = Compile(txMessage, txSignatures)
        /\ detached' = detached (+) OpenRequests(signing)
        /\ IF Len(identities) = 0
           THEN signing' =
                    [call EXCEPT !.compiled = TRUE,
                                 !.inner = "rejected", !.error = "NoSigners",
                                 !.outcome = IF direct THEN "rejected" ELSE "pending"]
           ELSE signing' =
                    [PartialSignWithIdentity(call, txMessage, Dedupe(identities))
                        EXCEPT !.compiled = TRUE,
                               !.dropped = Discarded(txMessage, txSignatures),
                               !.inner = "resolved",
                               !.outcome = IF direct THEN "resolved" ELSE "pending"]

\* Transaction.prototype.partial_sign_with_identity, called by op: the
\* whole body runs before the caller gets the promise back. The requests of
\* the previous call that are still open stay open.
partial_sign_with_identity(identities, op) ==
    LET call == NewCall(op, "legacy", identities)
        direct == op = "partial_sign_with_identity"
    IN  /\ detached' = detached (+) OpenRequests(signing)
        /\ IF Len(identities) = 0
           THEN /\ signing' =
                    [call EXCEPT !.inner = "rejected", !.error = "NoSigners",
                                 !.outcome = IF direct THEN "rejected" ELSE "pending"]
                /\ UNCHANGED txSignatures
           ELSE LET uniqueSigners == Dedupe(identities)
                    started == PartialSignWithIdentity(call, txMessage, uniqueSigners)
                IN  /\ txSignatures' = Compile(txMessage, txSignatures)
                    /\ signing' =
                        [started EXCEPT !.compiled = TRUE,
                                        !.dropped = Discarded(txMessage, txSignatures),
                                        !.inner = "resolved",
                                        !.outcome = IF direct THEN "resolved" ELSE "pending"]

\* A caller invokes transaction.partial_sign_with_identity(...identities).
CallPartialSign(identities) ==
    /\ OpenCount + Len(identities) <= MaxOpen
    /\ partial_sign_with_identity(identities, "partial_sign_with_identity")
    /\ UNCHANGED <<identity, constructedWith, emitted, returned, txMessage,
                   vtxMessage, vtxSignatures>>

\* The sign() promise of one identity of the legacy call in signing settles
\* and the callback of _partialSignWithIdentity resumes: _addSignature,
\* whose throw rejects the callback's own promise only.
SignCallback(id) ==
    /\ signing.tx = "legacy"
    /\ id \in signing.pending
    /\ LET signature == Sign(id, Serialize(txMessage))
           added == AddSignature(txSignatures, DeriveSignerKey(id), signature)
       IN  /\ txSignatures' = added.signatures
           /\ signing' = [signing EXCEPT
                  !.pending = @ \ {id},
                  !.written = IF added.error = "none" THEN Append(@, id) ELSE @,
                  !.unhandled = IF added.error = "none" THEN @
                                ELSE @ \cup {added.error}]
    /\ UNCHANGED <<identity, constructedWith, emitted, returned, txMessage,
                   vtxMessage, vtxSignatures, detached>>

\* The same for a request of an earlier legacy call.
DetachedSignCallback(id) ==
    /\ BagIn(LegacyRequest(id), detached)
    /\ LET signature == Sign(id, Serialize(txMessage))
           added == AddSignature(txSignatures, DeriveSignerKey(id), signature)
       IN  txSignatures' = added.signatures
    /\ detached' = detached (-) SetToBag({LegacyRequest(id)})
    /\ UNCHANGED <<identity, constructedWith, emitted, returned, txMessage,
                   vtxMessage, vtxSignatures, signing>>

\* ---------------------------------------------------- versioned signing
\* Variant: the identity is looked up among all static account keys.
SignLoopAllKeys(call, message, pos) ==
    IF pos > Len(call.ids)
    THEN [call EXCEPT !.inner = "resolved", !.pos = 0, !.index = 0]
    ELSE LET identity_pubkey == DeriveSignerKey(call.ids[pos])
             signerIndex == FindIndex(message.accountKeys, identity_pubkey)
         IN  IF ~(signerIndex >= 1)
             THEN [call EXCEPT !.inner = "rejected", !.error = "UnknownSigner",
                               !.pos = 0, !.index = 0]
             ELSE [call EXCEPT !.asked = Append(@, call.ids[pos]),
                               !.pending = {call.ids[pos]},
                               !.pos = pos, !.index = signerIndex]

\* VersionedTransaction.prototype.sign_with_identity, one turn of its for
\* loop from position pos up to the await: the loop ends and the promise
\* resolves, or the identity is no required signer and the promise rejects,
\* or sign() is invoked and the method suspends.
SignLoop(call, message, pos) ==
    LET signerPubkeys == Slice(message.accountKeys, message.numRequiredSignatures)
    IN  IF pos > Len(call.ids)
        THEN [call EXCEPT !.inner = "resolved", !.pos = 0, !.index = 0]
        ELSE LET identity_pubkey == DeriveSignerKey(call.ids[pos])
                 signerIndex == FindIndex(signerPubkeys, identity_pubkey)
             IN  IF ~(signerIndex >= 1)
                 THEN [call EXCEPT !.inner = "rejected", !.error = "UnknownSigner",
                                   !.pos = 0, !.index = 0]
                 ELSE [call EXCEPT !.asked = Append(@, call.ids[pos]),
                                   !.pending = {call.ids[pos]},
                                   !.pos = pos, !.index = signerIndex]

\* The promise a direct caller holds is the method's own promise; that of
\* signTransaction settles in a later turn.
CallerPromise(call) ==
    [call EXCEPT !.outcome = IF call.op = "signTransaction" THEN "pending" ELSE call.inner]

\* VersionedTransaction.prototype.sign_with_identity, called by op, up to
\* its first await.
sign_with_identity(identities, op) ==
    LET call == [NewCall(op, "versioned", identities) EXCEPT !.inner = "pending"]
    IN  /\ signing' = CallerPromise(SignLoop(call, vtxMessage, 1))
        /\ detached' = detached (+) OpenRequests(signing)

\* A caller invokes transaction.sign_with_identity(identities).
CallSignWithIdentity(identities) ==
    /\ OpenCount + Len(identities) <= MaxOpen
    /\ sign_with_identity(identities, "sign_with_identity")
    /\ UNCHANGED <<identity, constructedWith, emitted, returned, txMessage,
                   txSignatures, vtxMessage, vtxSignatures>>

\* Variant: the signature is stored at the identity's position in the
\* argument list.
SignWithIdentityResumeAtPos ==
    /\ signing.tx = "versioned"
    /\ signing.pending # {}
    /\ LET id == signing.ids[signing.pos]
           signature == Sign(id, Serialize(vtxMessage))
           stored == [signing EXCEPT !.pending = {}, !.written = Append(@, id)]
       IN  /\ vtxSignatures' = [i \in DOMAIN vtxSignatures |->
                                    IF i = signing.pos THEN signature
                                    ELSE vtxSignatures[i]]
           /\ signing' = CallerPromise(SignLoop(stored, vtxMessage, signing.pos + 1))
    /\ UNCHANGED <<identity, constructedWith, emitted, returned, txMessage,
                   txSignatures, vtxMessage, detached>>

\* The awaited sign() promise of the versioned call in signing settles: the
\* signature is stored at the located index and the loop goes on with the
\* next identity.
SignWithIdentityResume ==
    /\ signing.tx = "versioned"
    /\ signing.pending # {}
    /\ LET id == signing.ids[signing.pos]
           signature == Sign(id, Serialize(vtxMessage))
           stored == [signing EXCEPT !.pending = {}, !.written = Append(@, id)]
       IN  /\ vtxSignatures' = [vtxSignatures EXCEPT ![signing.index] = signature]
           /\ signing' = CallerPromise(SignLoop(stored, vtxMessage, signing.pos + 1))
    /\ UNCHANGED <<identity, constructedWith, emitted, returned, txMessage,
                   txSignatures, vtxMessage, detached>>

\* The awaited sign() promise of the loop of an earlier versioned call
\* settles: the signature is stored at the index the loop located and the
\* loop goes on with its next identity.
DetachedSignWithIdentityResume(request) ==
    /\ BagIn(request, detached)
    /\ request.tx = "versioned"
    /\ LET signature == Sign(request.id, Serialize(vtxMessage))
           loop == [NewCall("sign_with_identity", "versioned", request.rest)
                        EXCEPT !.inner = "pending"]
       IN  /\ vtxSignatures' = [vtxSignatures EXCEPT ![request.index] = signature]
           /\ detached' = (detached (-) SetToBag({request}))
                                (+) OpenRequests(SignLoop(loop, vtxMessage, 1))
    /\ UNCHANGED <<identity, constructedWith, emitted, returned, txMessage,
                   txSignatures, vtxMessage, signing>>

\* -------------------------------------------------------- the adapter
\* get publicKey()
publicKey == IF identity = NoIdentity THEN "null" ELSE DeriveSignerKey(identity)

\* Variant: connecting is true while a signTransaction call is in flight.
connectingWhileSigning == signing.op = "signTransaction" /\ signing.outcome = "pending"

\* get connecting()
connecting == FALSE

\* get readyState(): WalletReadyState.Loadable
readyState == "Loadable"

\* Variant: connect remembers the connection and emits only when the last
\* event was not a connect.
ConnectOnce ==
    /\ Len(returned) < MaxEvents
    /\ IF identity = NoIdentity
       THEN /\ returned' = Append(returned,
                    [op |-> "connect", outcome |-> "rejected", error |-> "NotConnected"])
            /\ UNCHANGED emitted
       ELSE /\ emitted' = IF emitted # << >> /\ emitted[Len(emitted)].type = "connect"
                          THEN emitted
                          ELSE Append(emitted, [type |-> "connect", publicKey |-> publicKey])
            /\ returned' = Append(returned,
                    [op |-> "connect", outcome |-> "resolved", error |-> "none"])
    /\ UNCHANGED <<identity, constructedWith, txMessage, txSignatures, vtxMessage,
                   vtxSignatures, signing, detached>>

\* IIWalletAdapter.connect
Connect ==
    /\ Len(returned) < MaxEvents
    /\ IF identity = NoIdentity
       THEN /\ returned' = Append(returned,
                    [op |-> "connect", outcome |-> "rejected", error |-> "NotConnected"])
            /\ UNCHANGED emitted
       ELSE /\ emitted' = Append(emitted, [type |-> "connect", publicKey |-> publicKey])
            /\ returned' = Append(returned,
                    [op |-> "connect", outcome |-> "resolved", error |-> "none"])
    /\ UNCHANGED <<identity, constructedWith, txMessage, txSignatures, vtxMessage,
                   vtxSignatures, signing, detached>>

\* Variant: disconnect drops the identity.
DisconnectClearing ==
    /\ Len(returned) < MaxEvents
    /\ identity' = NoIdentity
    /\ emitted' = Append(emitted, [type |-> "disconnect", publicKey |-> "null"])
    /\ returned' = Append(returned,
            [op |-> "disconnect", outcome |-> "resolved", error |-> "none"])
    /\ UNCHANGED <<constructedWith, txMessage, txSignatures, vtxMessage,
                   vtxSignatures, signing, detached>>

\* IIWalletAdapter.disconnect
Disconnect ==
    /\ Len(returned) < MaxEvents
    /\ emitted' = Append(emitted, [type |-> "disconnect", publicKey |-> "null"])
    /\ returned' = Append(returned,
            [op |-> "disconnect", outcome |-> "resolved", error |-> "none"])
    /\ UNCHANGED <<identity, constructedWith, txMessage, txSignatures, vtxMessage,
                   vtxSignatures, signing, detached>>

\* Variant: the identity is looked at after the legacy transaction has been
\* compiled.
SignTransactionCompileFirst(kind) ==
    /\ OpenCount + 1 <= MaxOpen
    /\ IF identity = NoIdentity
       THEN /\ signing' = [NewCall("signTransaction", kind, << >>) EXCEPT
                              !.compiled = kind = "legacy",
                              !.outcome = "rejected", !.error = "NotConnected"]
            /\ detached' = detached (+) OpenRequests(signing)
            /\ txSignatures' = IF kind = "legacy"
                               THEN Compile(txMessage, txSignatures)
                               ELSE txSignatures
            /\ UNCHANGED vtxSignatures
       ELSE IF kind = "versioned"
       THEN /\ sign_with_identity(<<identity>>, "signTransaction")
            /\ UNCHANGED <<txSignatures, vtxSignatures>>
       ELSE /\ partial_sign_with_identity(<<identity>>, "signTransaction")
            /\ UNCHANGED vtxSignatures
    /\ UNCHANGED <<identity, constructedWith, emitted, returned, txMessage, vtxMessage>>

\* IIWalletAdapter.signTransaction up to its await; kind says which
\* transaction the caller passed.
SignTransaction(kind) ==
    /\ OpenCount + 1 <= MaxOpen
    /\ IF identity = NoIdentity
       THEN /\ signing' = [NewCall("signTransaction", kind, << >>) EXCEPT
                              !.outcome = "rejected", !.error = "NotConnected"]
            /\ detached' = detached (+) OpenRequests(signing)
            /\ UNCHANGED <<txSignatures, vtxSignatures>>
       ELSE IF kind = "versioned"
       THEN /\ sign_with_identity(<<identity>>, "signTransaction")
            /\ UNCHANGED <<txSignatures, vtxSignatures>>
       ELSE /\ partial_sign_with_identity(<<identity>>, "signTransaction")
            /\ UNCHANGED vtxSignatures
    /\ UNCHANGED <<identity, constructedWith, emitted, returned, txMessage, vtxMessage>>

\* IIWalletAdapter.signTransaction after its await: the promise of the
\* transaction's method has settled, and the call returns the transaction
\* or rethrows.
SignTransactionReturn ==
    /\ signing.op = "signTransaction"
    /\ signing.outcome = "pending"
    /\ signing.inner \in {"resolved", "rejected"}
    /\ signing' = [signing EXCEPT !.outcome = signing.inner]
    /\ UNCHANGED <<identity, constructedWith, emitted, returned, txMessage,
                   txSignatures, vtxMessage, vtxSignatures, detached>>

\* ------------------------------------------------------- specifications
IdentityLists == SeqsUpTo(Identities, MaxIds)

FixedMessage == [accountKeys |-> <<"A">>, numRequiredSignatures |-> 1]

\* Callers invoking partial_sign_with_identity on a legacy transaction that
\* holds any slot list.
InitLegacy ==
    /\ identity = NoIdentity
    /\ constructedWith = identity
    /\ emitted = << >>
    /\ returned = << >>
    /\ txMessage \in Messages
    /\ txSignatures \in SlotLists(txMessage)
    /\ vtxMessage = FixedMessage
    /\ vtxSignatures = DefaultSignatures(vtxMessage)
    /\ signing = IdleCall
    /\ detached = EmptyBag

NextLegacy ==
    \/ \E ids \in IdentityLists : CallPartialSign(ids)
    \/ \E id \in Identities : SignCallback(id)
    \/ \E id \in Identities : DetachedSignCallback(id)

SpecLegacy == InitLegacy /\ [][NextLegacy]_vars

\* The signature arrays a versioned transaction can hold: per required
\* signer the zeroed default or that signer's signature.
SignatureArrays(message) ==
    {[i \in 1..message.numRequiredSignatures |->
        IF i \in filled
        THEN Sign([key |-> message.accountKeys[i], sigLen |-> SignatureLength],
                  Serialize(message))
        ELSE ZeroSignature] : filled \in SUBSET (1..message.numRequiredSignatures)}

\* A versioned transaction signed through an adapter that holds the
\* identity of key A and by callers invoking sign_with_identity themselves.
InitVersioned ==
    /\ identity = [key |-> "A", sigLen |-> SignatureLength]
    /\ constructedWith = identity
    /\ emitted = << >>
    /\ returned = << >>
    /\ txMessage = FixedMessage
    /\ txSignatures = << >>
    /\ vtxMessage \in Messages
    /\ vtxSignatures \in SignatureArrays(vtxMessage)
    /\ signing = IdleCall
    /\ detached = EmptyBag

NextVersioned ==
    \/ \E ids \in IdentityLists : CallSignWithIdentity(ids)
    \/ SignTransaction("versioned")
    \/ SignTransactionReturn
    \/ SignWithIdentityResume
    \/ \E request \in BagToSet(detached) : DetachedSignWithIdentityResume(request)

SpecVersioned == InitVersioned /\ [][NextVersioned]_vars

\* The adapter, constructed with an identity, handed a fresh legacy
\* transaction and a fresh versioned transaction built from the same
\* account keys.
Init ==
    /\ identity \in Identities \cup {NoIdentity}
    /\ constructedWith = identity
    /\ emitted = << >>
    /\ returned = << >>
    /\ txMessage \in Messages
    /\ txSignatures = << >>
    /\ vtxMessage = txMessage
    /\ vtxSignatures = DefaultSignatures(vtxMessage)
    /\ signing = IdleCall
    /\ detached = EmptyBag

Next ==
    \/ Connect
    \/ Disconnect
    \/ \E kind \in {"legacy", "versioned"} : SignTransaction(kind)
    \/ SignTransactionReturn
    \/ \E id \in Identities : SignCallback(id)
    \/ \E id \in Identities : DetachedSignCallback(id)
    \/ SignWithIdentityResume
    \/ \E request \in BagToSet(detached) : DetachedSignWithIdentityResume(request)

Spec == Init /\ [][Next]_vars

\* An adapter that holds no identity, handed a legacy transaction with any
\* slot list and a versioned transaction with any signature array.
InitNoIdentity ==
    /\ identity = NoIdentity
    /\ constructedWith = identity
    /\ emitted = << >>
    /\ returned = << >>
    /\ txMessage \in Messages
    /\ txSignatures \in SlotLists(txMessage)
    /\ vtxMessage = FixedMessage
    /\ vtxSignatures \in SignatureArrays(vtxMessage)
    /\ signing = IdleCall
    /\ detached = EmptyBag

NextNoIdentity ==
    \/ Connect
    \/ Disconnect
    \/ \E kind \in {"legacy", "versioned"} : SignTransaction(kind)

SpecNoIdentity == InitNoIdentity /\ [][NextNoIdentity]_vars

\* ------------------------------------------------------------ properties
\* The required signers of a message: its first numRequiredSignatures
\* account keys.
RequiredSigners(message) ==
    {message.accountKeys[i] : i \in 1..message.numRequiredSignatures}

\* The position of a required signer among the account keys.
PositionOf(message, key) ==
    CHOOSE i \in 1..message.numRequiredSignatures : message.accountKeys[i] = key

\* The signature held by the slot of key, NoSignature when no slot has it.
SlotSignature(signatures, key) ==
    IF \E i \in DOMAIN signatures : signatures[i].publicKey = key
    THEN signatures[CHOOSE i \in DOMAIN signatures : signatures[i].publicKey = key].signature
    ELSE NoSignature

FilledKeys(signatures) ==
    {signatures[i].publicKey : i \in {j \in DOMAIN signatures :
                                        signatures[j].signature # NoSignature}}

KeysOf(identities) == {DeriveSignerKey(identities[i]) : i \in DOMAIN identities}

\* The slot list has one slot per required signer, in the message's order.
SlotsMatch(message, signatures) ==
    /\ Len(signatures) = message.numRequiredSignatures
    /\ \A i \in DOMAIN signatures : signatures[i].publicKey = message.accountKeys[i]

\* The call's promise has settled and none of its sign() requests is open.
Finished(call) == call.outcome \in {"resolved", "rejected"} /\ call.pending = {}

\* This step is the arrival of id's signature, asked for by the legacy call
\* in signing.
Arrives(id) ==
    /\ signing.tx = "legacy"
    /\ id \in signing.pending
    /\ signing'.pending = signing.pending \ {id}
    /\ signing'.ids = signing.ids
    /\ signing'.asked = signing.asked
    /\ detached' = detached

\* This step is the arrival of id's signature, asked for by an earlier call.
ArrivesDetached(id) ==
    /\ BagIn(LegacyRequest(id), detached)
    /\ detached' = detached (-) SetToBag({LegacyRequest(id)})

\* Between two states, only the slot of key may differ, and only in its
\* signature.
OnlySlotOf(key, before, after) ==
    /\ Len(after) = Len(before)
    /\ \A i \in DOMAIN before :
        /\ after[i].publicKey = before[i].publicKey
        /\ before[i].publicKey # key => after[i] = before[i]

\* C1: when a legacy sign call (signTransaction on a legacy transaction, or
\* partial_sign_with_identity with distinct identities that are all required
\* signers) has resolved, exactly the slots of its identities are filled,
\* each with the 64-byte signature its identity produced over the message.
C1_ResolvedLegacyCallHasSigned ==
    (/\ signing.tx = "legacy"
     /\ signing.outcome = "resolved"
     /\ \A i, j \in DOMAIN signing.ids :
            signing.ids[i].key = signing.ids[j].key => i = j
     /\ \A i \in DOMAIN signing.ids :
            /\ signing.ids[i].key \in RequiredSigners(txMessage)
            /\ signing.ids[i].sigLen = SignatureLength)
    => /\ FilledKeys(txSignatures) = KeysOf(signing.ids)
       /\ \A i \in DOMAIN signing.ids :
            SlotSignature(txSignatures, signing.ids[i].key)
                = Sign(signing.ids[i], Serialize(txMessage))

\* C2: a legacy sign call in which signing raised UnknownSigner or
\* InvalidSignatureLength has its promise rejected with that error, and never
\* resolved.
C2_LegacySigningErrorsRejectCall ==
    (signing.tx = "legacy" /\ signing.unhandled # {})
        => /\ signing.outcome = "rejected"
           /\ signing.error \in signing.unhandled

\* C3: a versioned sign call with one identity whose key is not among the
\* required signers is rejected with UnknownSigner, never resolves, never
\* asks the identity to sign, and no step of it changes the signature array.
C3_UnknownVersionedSignerFails ==
    [][(/\ signing'.tx = "versioned"
        /\ Len(signing'.ids) = 1
        /\ signing'.ids[1].key \notin RequiredSigners(vtxMessage))
       => /\ signing'.inner = "rejected"
          /\ signing'.error = "UnknownSigner"
          /\ signing'.outcome \in {"pending", "rejected"}
          /\ signing'.op = "sign_with_identity" => signing'.outcome = "rejected"
          /\ signing'.asked = << >>
          /\ signing' # signing => vtxSignatures' = vtxSignatures]_vars

\* C3 witness: an identity whose key is an account key but not a required
\* signer was refused, on a transaction that carries a signature.
C3_Witness ==
    /\ signing.tx = "versioned"
    /\ Len(signing.ids) = 1
    /\ signing.ids[1].key \in Range(vtxMessage.accountKeys)
                                \ RequiredSigners(vtxMessage)
    /\ signing.outcome = "rejected"
    /\ signing.error = "UnknownSigner"
    /\ \E i \in DOMAIN vtxSignatures : vtxSignatures[i] # ZeroSignature

\* C4: when the awaited signature of a versioned call arrives (of the call
\* started last, or of an earlier call still in flight), it is stored at the
\* position its identity's key has among the required signers and every
\* other entry keeps its value; a versioned call resolves only when the
\* signature of each of its identities has been stored.
C4_VersionedWriteAtSignerIndex ==
    [][/\ (/\ signing.tx = "versioned"
           /\ signing.pending # {}
           /\ signing' # signing
           /\ detached' = detached)
            => LET id == CHOOSE x \in signing.pending : TRUE
               IN  /\ id.key \in RequiredSigners(vtxMessage)
                   /\ vtxSignatures' =
                        [vtxSignatures EXCEPT ![PositionOf(vtxMessage, id.key)] =
                            Sign(id, Serialize(vtxMessage))]
                   /\ signing'.written = Append(signing.written, id)
       /\ \A r \in BagToSet(detached) :
            (r.tx = "versioned" /\ CopiesIn(r, detached') < CopiesIn(r, detached))
            => /\ r.id.key \in RequiredSigners(vtxMessage)
               /\ vtxSignatures' =
                    [vtxSignatures EXCEPT ![PositionOf(vtxMessage, r.id.key)] =
                        Sign(r.id, Serialize(vtxMessage))]
       /\ (signing'.tx = "versioned"
                /\ "resolved" \in {signing'.inner, signing'.outcome})
            => /\ signing'.written = signing'.ids
               /\ signing'.pending = {}]_vars

\* C4 witness: a call has resolved after storing its identity's signature
\* at index 2, next to an entry it left alone.
C4_Witness ==
    /\ signing.tx = "versioned"
    /\ signing.outcome = "resolved"
    /\ Len(signing.ids) = 1
    /\ vtxMessage.numRequiredSignatures = 2
    /\ vtxMessage.accountKeys[2] = signing.ids[1].key
    /\ vtxSignatures[2] = Sign(signing.ids[1], Serialize(vtxMessage))
    /\ vtxSignatures[1] \notin {ZeroSignature, vtxSignatures[2]}

\* C5: while the slot list matches the required signers, a step that is
\* not the arrival of a signature (the compile step of a legacy sign call
\* among them) changes no slot, and the arrival of identity B's signature
\* changes no slot but B's, whose signature it becomes when B is a required
\* signer producing 64 bytes.
C5_CoSignerSlotsPreserved ==
    [][SlotsMatch(txMessage, txSignatures)
       => IF \E id \in Identities : Arrives(id) \/ ArrivesDetached(id)
          THEN \A id \in Identities :
                (Arrives(id) \/ ArrivesDetached(id))
                => /\ OnlySlotOf(id.key, txSignatures, txSignatures')
                   /\ (id.key \in RequiredSigners(txMessage)
                            /\ id.sigLen = SignatureLength)
                        => SlotSignature(txSignatures', id.key)
                                = Sign(id, Serialize(txMessage))
          ELSE txSignatures' = txSignatures]_vars

\* C5 witness: required signers [A, B]; a call with B alone has filled B's
\* slot and A's slot still holds A's signature.
C5_Witness ==
    /\ signing.tx = "legacy"
    /\ Finished(signing)
    /\ Len(signing.ids) = 1
    /\ signing.written = signing.ids
    /\ txMessage.numRequiredSignatures = 2
    /\ txMessage.accountKeys[2] = signing.ids[1].key
    /\ FilledKeys(txSignatures) = RequiredSigners(txMessage)

\* C6: partial_sign_with_identity with no identity is rejected with
\* NoSigners, without compiling, asking nobody to sign and leaving the slot
\* list as it was.
C6_NoSignersBeforeCompile ==
    [][(/\ signing'.op = "partial_sign_with_identity"
        /\ signing'.ids = << >>)
       => /\ signing'.outcome = "rejected"
          /\ signing'.error = "NoSigners"
          /\ ~signing'.compiled
          /\ signing'.asked = << >>
          /\ (~\E id \in Identities : ArrivesDetached(id))
                => txSignatures' = txSignatures]_vars

\* C6 witness: the call was refused on a transaction whose slots do not
\* match the required signers and hold a signature.
C6_Witness ==
    /\ signing.op = "partial_sign_with_identity"
    /\ signing.ids = << >>
    /\ signing.error = "NoSigners"
    /\ ~SlotsMatch(txMessage, txSignatures)
    /\ FilledKeys(txSignatures) # {}

\* C7: every signature held by a slot of the legacy transaction has 64
\* bytes.
C7_SlotSignaturesAre64Bytes ==
    \A i \in DOMAIN txSignatures :
        txSignatures[i].signature # NoSignature
            => txSignatures[i].signature.len = SignatureLength

\* C7 witness: an identity that is a required signer produced a signature of
\* another length, and its slot is empty after the call's work is done.
C7_Witness ==
    /\ signing.tx = "legacy"
    /\ Finished(signing)
    /\ detached = EmptyBag
    /\ \E i \in DOMAIN signing.asked :
        /\ signing.asked[i].sigLen # SignatureLength
        /\ signing.asked[i].key \in RequiredSigners(txMessage)
        /\ SlotsMatch(txMessage, txSignatures)
        /\ SlotSignature(txSignatures, signing.asked[i].key) = NoSignature

\* C8 as stated: no step of a legacy sign call one of whose identities
\* produces a signature that is not 64 bytes changes the slot list.
C8_BadSignatureCallLeavesSlots ==
    [][(/\ signing'.tx = "legacy"
        /\ \E i \in DOMAIN signing'.asked :
                signing'.asked[i].sigLen # SignatureLength
        /\ ~\E id \in Identities : ArrivesDetached(id))
       => txSignatures' = txSignatures]_vars

\* C8 amended: the arrival of a signature that is not 64 bytes leaves the
\* slot list as it is, and raises InvalidSignatureLength in the callback
\* without storing anything.
C8_BadSignatureNotAssigned ==
    [][\A id \in Identities :
        id.sigLen # SignatureLength
        => /\ ArrivesDetached(id) => txSignatures' = txSignatures
           /\ Arrives(id)
                => /\ txSignatures' = txSignatures
                   /\ signing'.written = signing.written
                   /\ "InvalidSignatureLength" \in signing'.unhandled]_vars

\* C8 witness: a call whose second identity produced a signature of another
\* length has nevertheless stored its first identity's signature.
C8_Witness ==
    /\ signing.tx = "legacy"
    /\ signing.pending = {}
    /\ Len(signing.asked) = 2
    /\ signing.asked[2].sigLen # SignatureLength
    /\ signing.asked[2].key \in RequiredSigners(txMessage)
    /\ "InvalidSignatureLength" \in signing.unhandled
    /\ signing.written = <<signing.asked[1]>>

\* C9: a legacy sign call asks each distinct signer of its list exactly
\* once and stores at most one signature per signer; a call given the same
\* identity twice asks it once and ends with that identity's slot as a call
\* given it once leaves it.
C9_DuplicateIdentitiesSignOnce ==
    LET once(identities) ==
            \A i, j \in DOMAIN identities :
                identities[i].key = identities[j].key => i = j
    IN  (signing.tx = "legacy" /\ signing.ids # << >>)
        => /\ once(signing.asked)
           /\ once(signing.written)
           /\ KeysOf(signing.asked) = KeysOf(signing.ids)
           /\ (Len(signing.ids) = 2 /\ signing.ids[1] = signing.ids[2])
                => LET id == signing.ids[1]
                       signs == id.key \in RequiredSigners(txMessage)
                                    /\ id.sigLen = SignatureLength
                   IN  /\ signing.asked = <<id>>
                       /\ Finished(signing) =>
                            /\ signing.written = IF signs THEN <<id>> ELSE << >>
                            /\ signs => SlotSignature(txSignatures, id.key)
                                            = Sign(id, Serialize(txMessage))

\* C9 witness: a call given the same identity twice has finished with one
\* signature stored.
C9_Witness ==
    /\ signing.tx = "legacy"
    /\ Len(signing.ids) = 2
    /\ signing.ids[1] = signing.ids[2]
    /\ Finished(signing)
    /\ signing.written = <<signing.ids[1]>>

\* C10: the adapter keeps the identity it was constructed with; every
\* disconnect() resolves and emits one disconnect event; and with an
\* identity given at construction publicKey is the key derived from it and
\* no connect() or signTransaction() fails with NotConnected.
C10_DisconnectKeepsIdentity ==
    /\ identity = constructedWith
    /\ \A i \in DOMAIN returned :
        returned[i].op = "disconnect" => returned[i].outcome = "resolved"
    /\ Cardinality({i \in DOMAIN emitted : emitted[i].type = "disconnect"})
        = Cardinality({i \in DOMAIN returned : returned[i].op = "disconnect"})
    /\ constructedWith # NoIdentity
        => /\ publicKey = DeriveSignerKey(constructedWith)
           /\ \A i \in DOMAIN returned : returned[i].error # "NotConnected"
           /\ signing.error # "NotConnected"

\* C10 witness: disconnect() was followed by a connect() that resolved, and
\* a signTransaction() has resolved.
C10_Witness ==
    /\ Len(returned) >= 2
    /\ returned[1].op = "disconnect"
    /\ returned[2].op = "connect"
    /\ returned[2].outcome = "resolved"
    /\ signing.op = "signTransaction"
    /\ signing.outcome = "resolved"

\* ------------------------------------------------------- claims C11..C18
\* The connect events emitted so far.
ConnectEvents(events) == {i \in DOMAIN events : events[i].type = "connect"}

\* The entries of returned that are connect() calls.
ConnectCalls(calls) == {i \in DOMAIN calls : calls[i].op = "connect"}

\* C11: a connect() that succeeds appends exactly one connect event carrying
\* the public key derived from the held identity and changes nothing else
\* of the adapter or the transactions; every connect() of a run, before or
\* after a disconnect(), settles the same way.
C11_ConnectEmitsOnceAndKeepsState ==
    [][(/\ Len(returned') = Len(returned) + 1
        /\ returned'[Len(returned')].op = "connect")
       => /\ \A i \in ConnectCalls(returned') :
                returned'[i] = returned'[Len(returned')]
          /\ returned'[Len(returned')].outcome = "resolved"
                => /\ emitted' = Append(emitted,
                        [type |-> "connect",
                         publicKey |-> DeriveSignerKey(identity)])
                   /\ identity # NoIdentity
                   /\ UNCHANGED <<identity, constructedWith, txMessage,
                                  txSignatures, vtxMessage, vtxSignatures,
                                  signing, detached>>]_vars

\* C11 witness: connect(), disconnect(), connect() have all resolved and
\* two connect events with the identity's key were emitted.
C11_Witness ==
    /\ Len(returned) = 3
    /\ returned[1].op = "connect"
    /\ returned[2].op = "disconnect"
    /\ returned[3].op = "connect"
    /\ \A i \in 1..3 : returned[i].outcome = "resolved"
    /\ Cardinality(ConnectEvents(emitted)) = 2
    /\ \A i \in ConnectEvents(emitted) :
            emitted[i].publicKey = DeriveSignerKey(identity)

\* C12: with no identity held, connect() is rejected with NotConnected and
\* no connect event is ever emitted, and signTransaction() is rejected with
\* NotConnected without compiling, asking for a signature, or changing the
\* slots of the legacy transaction or the signature array of the versioned
\* one.
C12_NoIdentityNotConnected ==
    [][identity = NoIdentity
       => /\ ConnectEvents(emitted') = {}
          /\ (/\ Len(returned') = Len(returned) + 1
              /\ returned'[Len(returned')].op = "connect")
                => /\ returned'[Len(returned')].outcome = "rejected"
                   /\ returned'[Len(returned')].error = "NotConnected"
                   /\ emitted' = emitted
          /\ signing'.op = "signTransaction"
                => /\ signing'.outcome = "rejected"
                   /\ signing'.error = "NotConnected"
                   /\ ~signing'.compiled
                   /\ signing'.asked = << >>
                   /\ txSignatures' = txSignatures
                   /\ vtxSignatures' = vtxSignatures]_vars

\* C12 witness: connect() and signTransaction() of a legacy transaction were
\* refused; the transaction holds a signature in a slot list that compiling
\* would have replaced.
C12_Witness ==
    /\ identity = NoIdentity
    /\ \E i \in ConnectCalls(returned) : returned[i].error = "NotConnected"
    /\ signing.op = "signTransaction"
    /\ signing.tx = "legacy"
    /\ signing.error = "NotConnected"
    /\ ~SlotsMatch(txMessage, txSignatures)
    /\ FilledKeys(txSignatures) # {}

\* C13: in every state of the adapter, whatever has run or is in flight,
\* connecting is false and readyState is Loadable.
C13_NeverConnectingAlwaysLoadable ==
    /\ connecting = FALSE
    /\ readyState = "Loadable"

\* C13 witness: after a connect() and a disconnect(), a signTransaction call
\* is waiting for the identity's signature.
C13_Witness ==
    /\ Len(returned) >= 2
    /\ signing.op = "signTransaction"
    /\ signing.tx = "versioned"
    /\ signing.outcome = "pending"
    /\ signing.pending # {}
    /\ ~connecting
    /\ readyState = "Loadable"

\* The slot list _compile builds when it does not reuse the present one.
ResetSlots(message) ==
    [i \in 1..message.numRequiredSignatures |->
        [publicKey |-> message.accountKeys[i], signature |-> NoSignature]]

\* C14: when the slot list has not exactly one slot per required signer in
\* the message's order, a legacy sign call that compiles leaves the list
\* with exactly the required signers in message order and no signature,
\* whatever signatures were there before.
C14_MismatchedSlotsAreReset ==
    [][(/\ ~SlotsMatch(txMessage, txSignatures)
        /\ signing' # signing
        /\ signing'.tx = "legacy"
        /\ signing'.compiled)
       => /\ txSignatures' = ResetSlots(txMessage)
          /\ FilledKeys(txSignatures') = {}
          /\ signing'.dropped = FilledKeys(txSignatures)]_vars

\* C14 witness: the two required signers both had a signature in a list of
\* the right length but in another order than the message's; the call has
\* compiled and the list is the reset one.
C14_Witness ==
    /\ signing.tx = "legacy"
    /\ signing.compiled
    /\ signing.pending = Range(signing.asked)
    /\ txMessage.numRequiredSignatures = 2
    /\ signing.dropped = RequiredSigners(txMessage)
    /\ txSignatures = ResetSlots(txMessage)

\* C15: once a legacy sign call with at least one identity has compiled,
\* the public keys of the slot list are the required signers of the message
\* in the message's order, and no later step (another call's compile, the
\* arrival of a signature) changes them; compiling a second time gives the
\* slot order of the first time.
C15_SlotOrderIsSignerOrder ==
    [][/\ (signing'.tx = "legacy" /\ signing'.compiled)
            => SlotKeys(txSignatures')
                = Slice(txMessage.accountKeys, txMessage.numRequiredSignatures)
       /\ SlotsMatch(txMessage, txSignatures)
            => SlotKeys(txSignatures') = SlotKeys(txSignatures)
       /\ SlotKeys(Compile(txMessage, Compile(txMessage, txSignatures)))
            = SlotKeys(Compile(txMessage, txSignatures))]_vars

\* C15 witness: a second call has compiled and stored a signature while a
\* request of an earlier call is still open; the two slots are those of the
\* two required signers.
C15_Witness ==
    /\ signing.tx = "legacy"
    /\ signing.compiled
    /\ signing.written # << >>
    /\ detached # EmptyBag
    /\ txMessage.numRequiredSignatures = 2
    /\ SlotKeys(txSignatures) = txMessage.accountKeys

\* C16: the identities of one legacy sign call are signed with in turn: no
\* identity's sign() has been invoked while the signature of an identity
\* before it in the deduplicated list is still outstanding, and the
\* signatures are stored in list order.
C16_LegacyIdentitiesSignInTurn ==
    signing.tx = "legacy"
        => /\ \A k \in 1..(Len(signing.asked) - 1) :
                signing.asked[k] \notin signing.pending
           /\ \A i, j \in DOMAIN signing.written :
                i < j => FindIndex(signing.asked, signing.written[i])
                            < FindIndex(signing.asked, signing.written[j])

\* An identity that is a required signer of the message and produces 64
\* bytes.
ValidSigner(id, message) ==
    /\ DeriveSignerKey(id) \in RequiredSigners(message)
    /\ id.sigLen = SignatureLength

\* C17: the arrival of a signature whose key has no slot raises
\* UnknownSigner and leaves every slot as it is; and when all requests of a
\* legacy sign call that raised UnknownSigner have settled, the slot of each
\* of its identities that is a required signer producing 64 bytes holds that
\* identity's signature, wherever the unknown identity stood in the list.
C17_UnknownSignerKeepsOtherSignatures ==
    [][/\ \A id \in Identities :
            (/\ Arrives(id) \/ ArrivesDetached(id)
             /\ id.sigLen = SignatureLength
             /\ FindIndex(SlotKeys(txSignatures), DeriveSignerKey(id)) = 0)
            => /\ txSignatures' = txSignatures
               /\ Arrives(id) => "UnknownSigner" \in signing'.unhandled
       /\ (/\ signing'.tx = "legacy"
           /\ signing'.pending = {}
           /\ "UnknownSigner" \in signing'.unhandled)
            => \A i \in DOMAIN signing'.asked :
                ValidSigner(signing'.asked[i], txMessage)
                    => SlotSignature(txSignatures', signing'.asked[i].key)
                            = Sign(signing'.asked[i], Serialize(txMessage))]_vars

\* C17 witness: the first identity of a call of two was the unknown signer
\* and settled last; the second one's signature is in its slot.
C17_Witness ==
    /\ signing.tx = "legacy"
    /\ signing.pending = {}
    /\ Len(signing.asked) = 2
    /\ ~ValidSigner(signing.asked[1], txMessage)
    /\ signing.asked[1].sigLen = SignatureLength
    /\ signing.unhandled = {"UnknownSigner"}
    /\ signing.written = <<signing.asked[2]>>
    /\ SlotSignature(txSignatures, signing.asked[2].key)
            = Sign(signing.asked[2], Serialize(txMessage))

\* C18: with legacy sign calls overlapping on one transaction, no step
\* (the compile step of a call started while requests of another are open,
\* or the arrival of any signature) empties a slot that holds a signature
\* once the slot list matches the required signers, and the arrival of the
\* signature of a required signer producing 64 bytes fills that signer's
\* slot; so when the requests of both calls have settled, both slots are
\* filled.
C18_OverlappingCallsLoseNoSignature ==
    [][/\ SlotsMatch(txMessage, txSignatures)
            => FilledKeys(txSignatures) \subseteq FilledKeys(txSignatures')
       /\ (signing.pending # {} /\ signing'.compiled /\ signing'.pending # signing.pending
           /\ ~\E id \in Identities : Arrives(id) \/ ArrivesDetached(id))
            => /\ txSignatures' = txSignatures
               /\ \A id \in signing.pending : BagIn(LegacyRequest(id), detached')
       /\ \A id \in Identities :
            (/\ Arrives(id) \/ ArrivesDetached(id)
             /\ ValidSigner(id, txMessage))
            => DeriveSignerKey(id) \in FilledKeys(txSignatures')
       /\ (signing'.pending = {} /\ detached' = EmptyBag /\ detached # EmptyBag
           /\ signing'.written # << >>)
            => \A id \in {r.id : r \in BagToSet(detached)} \cup Range(signing'.written) :
                ValidSigner(id, txMessage)
                    => DeriveSignerKey(id) \in FilledKeys(txSignatures')]_vars

\* C18 witness: a call with B was started while the request of a call with
\* A was open; B's signature has been stored, A's request is still open and
\* A's slot is still empty.
C18_Witness ==
    /\ txMessage.numRequiredSignatures = 2
    /\ signing.tx = "legacy"
    /\ Len(signing.ids) = 1
    /\ signing.written = signing.ids
    /\ \E id \in Identities :
        /\ detached = SetToBag({LegacyRequest(id)})
        /\ ValidSigner(id, txMessage)
        /\ DeriveSignerKey(id) # signing.ids[1].key
        /\ FilledKeys(txSignatures) = {signing.ids[1].key}

====
